---- MODULE Spec2Model ----
(***************************************************************************)
(* Library management addon: author registry, book catalog and rental      *)
(* ledger (library.author, library.book, library.rent), with the model     *)
(* constraints and the computed fields of library.book.                    *)
(*                                                                         *)
(* Every ORM call (create / write / unlink / button action) is one action: *)
(* field assignment, recomputation of the stored computed field, then the  *)
(* @api.constrains methods triggered by the written fields; an exception   *)
(* rolls the tables back, and only `last` (the response) changes.          *)
(* `bus` holds the notifications sent to users, in order.                  *)
(***************************************************************************)
EXTENDS Integers, Sequences, FiniteSets, TLC

VARIABLES authors, books, rents, rent_seq, today, last, bus

vars == <<authors, books, rents, rent_seq, today, last, bus>>

----------------------------------------------------------------------------
(* Bounds and value universes *)

\* rental entries ever created (ids are never reused)
MaxRents == 2
\* the clock runs over days 0 .. MaxDay
MaxDay == 1
\* fields one write() call sets
MaxWriteKeys == 2
\* author records ever created
MaxAuthors == 3
\* book records ever created in the catalog specification
MaxBooks == 2

\* an unset Date / Many2one field reads as False in the ORM
NoDate == -1
NoPartner == 0
\* a key that is not in the vals dictionary of create() / write()
Absent == -2
\* the same for a Char field
AbsentName == <<"(absent)">>

\* res.partner ids of the eligible borrowers
Partners == {1, 2}
\* library.book ids of the catalog the rental ledger runs over
LedgerBooks == {1, 2}
\* date values a caller can pass: any day up to one past the last clock day
DateInputs == (0 .. (MaxDay + 1)) \cup {NoDate}

\* Char values, as sequences of characters
Names ==
    { <<"a", "b">>, <<"A", "B">>, <<" ", "a", "b">>, <<"a", "b", " ">>,
      <<"a", "_">>, <<"a", "%">>, <<"c", "d">>, <<"a">>, <<" ", "a", " ">>,
      <<" ", " ">> }

\* size=100 of the Char field library.author.name
AuthorNameSize == 100
\* a name one character longer than the field's size
LongName == [i \in 1 .. AuthorNameSize + 1 |-> "c"]
\* names a caller can pass to library.author
AuthorNames == Names \cup {LongName}

----------------------------------------------------------------------------
(* Outcomes of an operation *)

NoError == [exc |-> "none", msg |-> ""]
ValidationError(m) == [exc |-> "ValidationError", msg |-> m]
\* comparing False with a date: '>' not supported between 'bool' and 'date'
TypeError == [exc |-> "TypeError", msg |-> "'>' not supported"]
\* the database refusing a value longer than the column ("size=100 is enforced
\* by DB")
DataError == [exc |-> "DataError", msg |-> "value too long"]
\* what becomes of a Char value longer than the field's size: cut to the size
\* on the way to the column, or refused by the column
OversizeOutcomes == {"truncated", "refused"}

MsgAlreadyRented == "This book is already rented and not returned"
MsgRentFuture == "Rent date cannot be in the future."
MsgReturnEarly == "Return date cannot be earlier than rent date."
MsgReturnFuture == "Return date cannot be in the future."
MsgAlreadyReturned == "This book was already returned."

\* the first exception raised by a list of checks run in order
RECURSIVE FirstError(_)
FirstError(checks) ==
    IF checks = <<>> THEN NoError
    ELSE IF Head(checks).exc # "none" THEN Head(checks)
    ELSE FirstError(Tail(checks))

----------------------------------------------------------------------------
(* library.rent *)

\* book.rent_ids.filtered(lambda r: not r.return_date), over a rent table rs
open_rents(rs, b) ==
    { r \in DOMAIN rs : rs[r].book_id = b /\ rs[r].return_date = NoDate }

\* the constraint with a search domain that skips the record's own borrower
_check_only_one_open_rent_per_book_OtherPartner(rs, r) ==
    IF rs[r].return_date # NoDate THEN NoError
    ELSE IF \E o \in DOMAIN rs :
                /\ rs[o].book_id = rs[r].book_id
                /\ rs[o].return_date = NoDate
                /\ rs[o].partner_id # rs[r].partner_id
                /\ o # r
         THEN ValidationError(MsgAlreadyRented)
         ELSE NoError

\* @api.constrains("book_id", "return_date")
_check_only_one_open_rent_per_book(rs, r) ==
    IF rs[r].return_date # NoDate THEN NoError
    ELSE IF \E o \in DOMAIN rs :
                /\ rs[o].book_id = rs[r].book_id
                /\ rs[o].return_date = NoDate
                /\ o # r
         THEN ValidationError(MsgAlreadyRented)
         ELSE NoError

\* @api.constrains("rent_date", "return_date")
_check_rent_dates_validity(rs, r, now) ==
    IF rs[r].rent_date = NoDate THEN TypeError
    ELSE IF rs[r].rent_date > now THEN ValidationError(MsgRentFuture)
    ELSE IF rs[r].return_date # NoDate /\ rs[r].return_date < rs[r].rent_date
         THEN ValidationError(MsgReturnEarly)
    ELSE IF rs[r].return_date # NoDate /\ rs[r].return_date > now
         THEN ValidationError(MsgReturnFuture)
    ELSE NoError

\* the constraints with the first one declared on "return_date" alone
RentConstraints_NoBookTrigger(rs, r, keys, now) ==
    FirstError(
        (IF keys \cap {"return_date"} # {}
         THEN <<_check_only_one_open_rent_per_book(rs, r)>> ELSE <<>>)
        \o
        (IF keys \cap {"rent_date", "return_date"} # {}
         THEN <<_check_rent_dates_validity(rs, r, now)>> ELSE <<>>))

\* the constraint methods of library.rent whose fields are among `keys`,
\* run on record r of the table rs after field assignment
RentConstraints(rs, r, keys, now) ==
    FirstError(
        (IF keys \cap {"book_id", "return_date"} # {}
         THEN <<_check_only_one_open_rent_per_book(rs, r)>> ELSE <<>>)
        \o
        (IF keys \cap {"rent_date", "return_date"} # {}
         THEN <<_check_rent_dates_validity(rs, r, now)>> ELSE <<>>))

----------------------------------------------------------------------------
(* library.book: computed fields *)

\* @api.depends("rent_ids", "rent_ids.return_date"), store=True
_compute_is_available(rs, b) == Cardinality(open_rents(rs, b)) = 0

\* the compute method without the filter on return_date
_compute_current_renter_AllRents(rs, b, now) ==
    LET all == { r \in DOMAIN rs : rs[r].book_id = b }
        key(r) == IF rs[r].rent_date # NoDate THEN rs[r].rent_date ELSE now
        latest == { r \in all : \A o \in all : key(o) <= key(r) }
    IN
    IF all = {} THEN {NoPartner}
    ELSE { rs[r].partner_id : r \in latest }

\* @api.depends("rent_ids.partner_id", "rent_ids.return_date"), store=False.
\* The values the field can take: with several open rents of the same latest
\* rent_date the sort leaves the choice to the record order.
_compute_current_renter(rs, b, now) ==
    LET open == open_rents(rs, b)
        key(r) == IF rs[r].rent_date # NoDate THEN rs[r].rent_date ELSE now
        latest == { r \in open : \A o \in open : key(o) <= key(r) }
    IN
    IF open = {} THEN {NoPartner}
    ELSE { rs[r].partner_id : r \in latest }

\* recomputation that misses the book an entry is moved away from
Triggered_NewBookOnly(rs, ns, r, keys) ==
    IF keys \cap {"book_id", "return_date"} = {} THEN {}
    ELSE IF r \in DOMAIN ns THEN {ns[r].book_id} ELSE {rs[r].book_id}

\* books whose is_available is marked for recomputation when the rent table
\* goes from rs to ns with the fields `keys` of record r written
Triggered(rs, ns, r, keys) ==
    IF keys \cap {"book_id", "return_date"} = {} THEN {}
    ELSE (IF r \in DOMAIN rs THEN {rs[r].book_id} ELSE {})
         \cup (IF r \in DOMAIN ns THEN {ns[r].book_id} ELSE {})

\* recomputation that assigns the marked books' value to the whole table
Recompute_WholeTable(bs, ns, marked) ==
    [b \in DOMAIN bs |->
        IF marked # {}
        THEN [bs[b] EXCEPT !.is_available =
                               \A m \in marked : _compute_is_available(ns, m)]
        ELSE bs[b]]

\* the book table after the stored computed field is recomputed
Recompute(bs, ns, marked) ==
    [b \in DOMAIN bs |->
        IF b \in marked
        THEN [bs[b] EXCEPT !.is_available = _compute_is_available(ns, b)]
        ELSE bs[b]]

----------------------------------------------------------------------------
(* The response of the last request.  `dates` classifies its date fields:  *)
(* "untouched" when the request sets neither rent_date nor return_date,    *)
(* "ordered" when the record it would store has rent_date <= today and an  *)
(* unset return_date or rent_date <= return_date <= today, else "unordered" *)

Response(op, id, err, dates) ==
    [op |-> op, id |-> id, exc |-> err.exc, msg |-> err.msg, dates |-> dates]

DatesOrdered(rec, now) ==
    /\ rec.rent_date # NoDate
    /\ rec.rent_date <= now
    /\ \/ rec.return_date = NoDate
       \/ rec.rent_date <= rec.return_date /\ rec.return_date <= now

DatesClass(rec, keys, now) ==
    IF keys \cap {"rent_date", "return_date"} = {} THEN "untouched"
    ELSE IF DatesOrdered(rec, now) THEN "ordered"
    ELSE "unordered"

----------------------------------------------------------------------------
(* library.rent: operations *)

RentFields == {"partner_id", "book_id", "rent_date", "return_date"}

\* vals of library.rent create(): the two required references, rent_date
\* (default fields.Date.today when the key is absent) and return_date
CreateVals ==
    [partner_id : Partners, book_id : LedgerBooks,
     rent_date : DateInputs \cup {Absent}, return_date : DateInputs]

Keys(vals) == { f \in RentFields : vals[f] # Absent }

\* vals of library.rent write(): a non-empty set of at most MaxWriteKeys fields
WriteVals ==
    { v \in [partner_id : Partners \cup {Absent},
             book_id : LedgerBooks \cup {Absent},
             rent_date : DateInputs \cup {Absent},
             return_date : DateInputs \cup {Absent}] :
        /\ Keys(v) # {}
        /\ Cardinality(Keys(v)) <= MaxWriteKeys }

\* field assignment of write()
Assign(rec, vals) ==
    [f \in RentFields |-> IF vals[f] # Absent THEN vals[f] ELSE rec[f]]

\* create() that leaves the inserted record behind when a constraint raises
rent_create_KeepsRecord(vals) ==
    /\ rent_seq < MaxRents
    /\ vals.book_id \in DOMAIN books
    /\ LET id == rent_seq + 1
           rec == [partner_id |-> vals.partner_id,
                   book_id |-> vals.book_id,
                   rent_date |-> IF vals.rent_date = Absent THEN today
                                 ELSE vals.rent_date,
                   return_date |-> vals.return_date]
           ns == (id :> rec) @@ rents
           err == RentConstraints(ns, id, RentFields, today)
       IN /\ rents' = ns
          /\ rent_seq' = id
          /\ books' = Recompute(books, ns, Triggered(rents, ns, id, RentFields))
          /\ last' = Response("create", IF err = NoError THEN id ELSE 0, err,
                              DatesClass(rec, RentFields, today))
    /\ UNCHANGED <<authors, today, bus>>

\* models.Model.create on library.rent
rent_create(vals) ==
    /\ rent_seq < MaxRents
    /\ vals.book_id \in DOMAIN books
    /\ LET id == rent_seq + 1
           rec == [partner_id |-> vals.partner_id,
                   book_id |-> vals.book_id,
                   rent_date |-> IF vals.rent_date = Absent THEN today
                                 ELSE vals.rent_date,
                   return_date |-> vals.return_date]
           ns == (id :> rec) @@ rents
           err == RentConstraints(ns, id, RentFields, today)
       IN IF err = NoError
          THEN /\ rents' = ns
               /\ rent_seq' = id
               /\ books' = Recompute(books, ns,
                                     Triggered(rents, ns, id, RentFields))
               /\ last' = Response("create", id, err,
                                   DatesClass(rec, RentFields, today))
          ELSE /\ UNCHANGED <<rents, rent_seq, books>>
               /\ last' = Response("create", 0, err,
                                   DatesClass(rec, RentFields, today))
    /\ UNCHANGED <<authors, today, bus>>

\* models.Model.write on one library.rent record, called as operation `op`
WriteRecord(op, r, vals) ==
    LET rec == Assign(rents[r], vals)
        ns == [rents EXCEPT ![r] = rec]
        err == RentConstraints(ns, r, Keys(vals), today)
    IN IF err = NoError
       THEN /\ rents' = ns
            /\ books' = Recompute(books, ns,
                                  Triggered(rents, ns, r, Keys(vals)))
            /\ last' = Response(op, r, err, DatesClass(rec, Keys(vals), today))
       ELSE /\ UNCHANGED <<rents, books>>
            /\ last' = Response(op, r, err, DatesClass(rec, Keys(vals), today))

rent_write(r, vals) ==
    /\ r \in DOMAIN rents
    /\ vals.book_id \in DOMAIN books \cup {Absent}
    /\ WriteRecord("write", r, vals)
    /\ UNCHANGED <<authors, rent_seq, today, bus>>

\* the return action without the double-return guard
action_return_book_NoGuard(r) ==
    /\ r \in DOMAIN rents
    /\ WriteRecord("return", r,
                   [partner_id |-> Absent, book_id |-> Absent,
                    rent_date |-> Absent, return_date |-> today])
    /\ UNCHANGED <<authors, rent_seq, today, bus>>

\* the return action writing rent_date along with return_date
action_return_book_ResetsRentDate(r) ==
    /\ r \in DOMAIN rents
    /\ IF rents[r].return_date # NoDate
       THEN /\ UNCHANGED <<rents, books>>
            /\ last' = Response("return", r,
                                ValidationError(MsgAlreadyReturned), "untouched")
       ELSE WriteRecord("return", r,
                        [partner_id |-> Absent, book_id |-> Absent,
                         rent_date |-> today, return_date |-> today])
    /\ UNCHANGED <<authors, rent_seq, today, bus>>

\* LibraryRent.action_return_book
action_return_book(r) ==
    /\ r \in DOMAIN rents
    /\ IF rents[r].return_date # NoDate
       THEN /\ UNCHANGED <<rents, books>>
            /\ last' = Response("return", r,
                                ValidationError(MsgAlreadyReturned), "untouched")
       ELSE WriteRecord("return", r,
                        [partner_id |-> Absent, book_id |-> Absent,
                         rent_date |-> Absent, return_date |-> today])
    /\ UNCHANGED <<authors, rent_seq, today, bus>>

\* models.Model.unlink on one library.rent record
rent_unlink(r) ==
    /\ r \in DOMAIN rents
    /\ LET ns == [o \in DOMAIN rents \ {r} |-> rents[o]]
       IN /\ rents' = ns
          /\ books' = Recompute(books, ns, Triggered(rents, ns, r, {"book_id"}))
    /\ last' = Response("unlink", r, NoError, "untouched")
    /\ UNCHANGED <<authors, rent_seq, today, bus>>

\* a clock that can be set to any other day, earlier ones included
Tick_AnyDay ==
    /\ today' \in (0 .. MaxDay) \ {today}
    /\ UNCHANGED <<authors, books, rents, rent_seq, last, bus>>

\* fields.Date.today() moves on
Tick ==
    /\ today < MaxDay
    /\ today' = today + 1
    /\ UNCHANGED <<authors, books, rents, rent_seq, last, bus>>

----------------------------------------------------------------------------
(* Rental ledger over a catalog of two books by one author *)

Book(name, author, published) ==
    [name |-> name, author_id |-> author, published_date |-> published,
     is_available |-> TRUE]

Init ==
    /\ authors = (1 :> [name |-> <<"c", "d">>])
    /\ books = (1 :> Book(<<"a", "b">>, 1, NoDate))
               @@ (2 :> Book(<<"c", "d">>, 1, NoDate))
    /\ rents = <<>>
    /\ rent_seq = 0
    /\ today = 0
    /\ last = Response("none", 0, NoError, "untouched")
    /\ bus = <<>>

Next ==
    \/ \E vals \in CreateVals : rent_create(vals)
    \/ \E r \in 1 .. MaxRents : \E vals \in WriteVals : rent_write(r, vals)
    \/ \E r \in 1 .. MaxRents : action_return_book(r)
    \/ \E r \in 1 .. MaxRents : rent_unlink(r)
    \/ Tick

Spec == Init /\ [][Next]_vars

----------------------------------------------------------------------------
(* Rental ledger: properties *)

OpenCount(b) == Cardinality(open_rents(rents, b))

\* C1: after every ledger mutation (create, return, write of return_date or
\* book_id, unlink), every book's stored is_available is true exactly when
\* the book has no rental entry with an unset return date.
C1_AvailableIffNoOpenRent ==
    \A b \in DOMAIN books : books[b].is_available <=> (OpenCount(b) = 0)

\* an open entry was just moved by write(): its book is rented, and the other
\* book, which still has an entry, is free
C1_Witness ==
    /\ last.op = "write" /\ last.exc = "none"
    /\ \E b1, b2 \in DOMAIN books :
        /\ ~books[b1].is_available
        /\ books[b2].is_available
        /\ \E r \in DOMAIN rents : rents[r].book_id = b2

\* C2: with requests executed one at a time, no book ever has more than one
\* rental entry with an unset return date.
C2_AtMostOneOpenRentPerBook ==
    \A b \in DOMAIN books : OpenCount(b) <= 1

\* a write() was refused as "already rented" while its book has one open and
\* one closed entry
C2_Witness ==
    /\ last.op = "write" /\ last.msg = MsgAlreadyRented
    /\ \E b \in DOMAIN books :
        /\ OpenCount(b) = 1
        /\ \E r \in DOMAIN rents :
            rents[r].book_id = b /\ rents[r].return_date # NoDate

\* C4: a book without open rental entry has no current renter; a book with
\* exactly one open rental entry has that entry's borrower as current renter.
C4_CurrentRenterMatchesOpenRent ==
    \A b \in DOMAIN books :
        /\ OpenCount(b) = 0 =>
            _compute_current_renter(rents, b, today) = {NoPartner}
        /\ \A r \in DOMAIN rents :
            open_rents(rents, b) = {r} =>
                _compute_current_renter(rents, b, today) = {rents[r].partner_id}

\* a book with one open entry and a closed entry of another borrower
C4_Witness ==
    \E b \in DOMAIN books : \E r, c \in DOMAIN rents :
        /\ open_rents(rents, b) = {r}
        /\ rents[c].book_id = b
        /\ rents[c].return_date # NoDate
        /\ rents[c].partner_id # rents[r].partner_id

\* C5: create() of an entry with unset return date for a book that has an
\* open entry raises ValidationError "already rented", whoever the borrower.
C5_CreateOnRentedBookFails ==
    [][\A vals \in CreateVals :
          ( /\ vals.return_date = NoDate
            /\ open_rents(rents, vals.book_id) # {}
            /\ rent_create(vals) )
          => /\ last'.exc = "ValidationError"
             /\ last'.msg = MsgAlreadyRented
             /\ rents' = rents]_vars

\* a create() was refused as "already rented"
C5_Witness ==
    /\ last.op = "create"
    /\ last.exc = "ValidationError" /\ last.msg = MsgAlreadyRented
    /\ \E b \in DOMAIN books : OpenCount(b) = 1

\* C6: a successful return action leaves the entry's book available and
\* without current renter; the return action called again on the entry that
\* the previous request returned raises ValidationError.
C6_ReturnThenReturnAgain ==
    [][\A r \in 1 .. MaxRents :
          action_return_book(r) =>
            /\ last'.exc = "none" =>
                /\ books'[rents[r].book_id].is_available
                /\ _compute_current_renter(rents', rents[r].book_id, today')
                       = {NoPartner}
            /\ (last.op = "return" /\ last.id = r /\ last.exc = "none") =>
                /\ last'.exc = "ValidationError"
                /\ last'.msg = MsgAlreadyReturned]_vars

\* the second return of an entry was refused; its book is available
C6_Witness ==
    /\ last.op = "return" /\ last.msg = MsgAlreadyReturned
    /\ last.id \in DOMAIN rents
    /\ books[rents[last.id].book_id].is_available
    /\ _compute_current_renter(rents, rents[last.id].book_id, today)
           = {NoPartner}

\* C7: a successful return action sets the entry's return_date to the
\* current date and changes no other field of the entry.
C7_ReturnSetsOnlyReturnDate ==
    [][\A r \in 1 .. MaxRents :
          (action_return_book(r) /\ last'.exc = "none") =>
            /\ rents'[r].return_date = today
            /\ rents'[r].partner_id = rents[r].partner_id
            /\ rents'[r].book_id = rents[r].book_id
            /\ rents'[r].rent_date = rents[r].rent_date]_vars

\* an entry rented on an earlier day was returned today
C7_Witness ==
    /\ last.op = "return" /\ last.exc = "none"
    /\ last.id \in DOMAIN rents
    /\ rents[last.id].return_date = today
    /\ rents[last.id].rent_date < today

\* C8: every create() or write() that sets rent_date or return_date raises
\* ValidationError unless rent_date <= today and the return date is unset or
\* rent_date <= return_date <= today; so every stored entry is so ordered.
C8_DatesRejectedWithValidationError ==
    /\ (last.op \in {"create", "write"} /\ last.dates = "unordered")
           => last.exc = "ValidationError"
    /\ \A r \in DOMAIN rents : DatesOrdered(rents[r], today)

----------------------------------------------------------------------------
(* Char values: str.strip, str.lower and the "=ilike" search operator *)

RECURSIVE LStrip(_)
LStrip(s) ==
    IF s # <<>> /\ Head(s) = " " THEN LStrip(Tail(s)) ELSE s

RECURSIVE RStrip(_)
RStrip(s) ==
    IF s # <<>> /\ s[Len(s)] = " " THEN RStrip(SubSeq(s, 1, Len(s) - 1)) ELSE s

\* str.strip()
Strip(s) == RStrip(LStrip(s))

LowerChar(c) ==
    CASE c = "A" -> "a"
      [] c = "B" -> "b"
      [] c = "C" -> "c"
      [] c = "D" -> "d"
      [] OTHER -> c

\* str.lower()
Lower(s) == [i \in 1 .. Len(s) |-> LowerChar(s[i])]

\* value ILIKE pattern: the whole value against the pattern, letters compared
\* without case, "_" for any one character and "%" for any run of characters
RECURSIVE ILike(_, _)
ILike(value, pattern) ==
    IF \A i \in 1 .. Len(pattern) : pattern[i] # "%"
    THEN /\ Len(value) = Len(pattern)
         /\ \A i \in 1 .. Len(pattern) :
              \/ pattern[i] = "_"
              \/ LowerChar(value[i]) = LowerChar(pattern[i])
    ELSE IF Head(pattern) = "%"
         THEN \/ ILike(value, Tail(pattern))
              \/ value # <<>> /\ ILike(Tail(value), pattern)
    ELSE IF value = <<>> THEN FALSE
    ELSE IF Head(pattern) = "_" THEN ILike(Tail(value), Tail(pattern))
    ELSE /\ LowerChar(Head(value)) = LowerChar(Head(pattern))
         /\ ILike(Tail(value), Tail(pattern))

MsgAuthorExists == "Author already exists"
MsgAuthorShort == "Author name must be at least 2 characters long"
MsgBookExists == "A book with this title and author already exists."
MsgBookShort == "Book name must be at least 2 characters long"
MsgPublishedFuture == "Published date cannot be in the future."

----------------------------------------------------------------------------
(* library.author *)

\* @api.constrains("name"): search [("name", "=ilike", normalized),
\* ("id", "!=", record.id)] over the author table as
_check_unique_name_normalized(as, a) ==
    LET normalized == Lower(Strip(as[a].name))
    IN IF as[a].name = <<>> THEN NoError
       ELSE IF normalized = <<>> THEN NoError
       ELSE IF \E o \in DOMAIN as : o # a /\ ILike(as[o].name, normalized)
            THEN ValidationError(MsgAuthorExists)
            ELSE NoError

\* @api.constrains("name") of library.author
author_check_name_length(as, a) ==
    IF as[a].name = <<>> THEN NoError
    ELSE IF Len(Strip(as[a].name)) < 2 THEN ValidationError(MsgAuthorShort)
    ELSE NoError

\* the constraint methods of library.author, which the ORM runs in the order
\* of their names
AuthorConstraints(as, a) ==
    FirstError(<<author_check_name_length(as, a),
                 _check_unique_name_normalized(as, a)>>)

\* models.Model.create on library.author
author_create(name) ==
    /\ Len(authors) < MaxAuthors
    /\ \E oversize \in OversizeOutcomes :
         LET fits == Len(name) <= AuthorNameSize
             stored == IF fits THEN name ELSE SubSeq(name, 1, AuthorNameSize)
             ns == Append(authors, [name |-> stored])
             err == IF ~fits /\ oversize = "refused" THEN DataError
                    ELSE AuthorConstraints(ns, Len(ns))
         IN IF err = NoError
            THEN /\ authors' = ns
                 /\ last' = Response("author_create", Len(ns), err, "untouched")
            ELSE /\ UNCHANGED authors
                 /\ last' = Response("author_create", 0, err, "untouched")
    /\ UNCHANGED <<books, rents, rent_seq, today, bus>>

----------------------------------------------------------------------------
(* library.book: constraints and operations *)

BookFields == {"name", "author_id", "published_date"}

\* @api.constrains("name", "author_id"): search [("name", "=ilike",
\* record.name.strip()), ("author_id", "=", record.author_id.id),
\* ("id", "!=", record.id)] over the book table bs
_check_unique_name_author(bs, b) ==
    IF bs[b].name = <<>> THEN NoError
    ELSE IF \E o \in DOMAIN bs :
                /\ ILike(bs[o].name, Strip(bs[b].name))
                /\ bs[o].author_id = bs[b].author_id
                /\ o # b
         THEN ValidationError(MsgBookExists)
         ELSE NoError

\* the constraint with the comparison `>= today`
_check_published_date_not_future_RejectsToday(bs, b, now) ==
    IF bs[b].published_date # NoDate /\ bs[b].published_date >= now
    THEN ValidationError(MsgPublishedFuture)
    ELSE NoError

\* @api.constrains("published_date")
_check_published_date_not_future(bs, b, now) ==
    IF bs[b].published_date # NoDate /\ bs[b].published_date > now
    THEN ValidationError(MsgPublishedFuture)
    ELSE NoError

\* @api.constrains("name") of library.book
book_check_name_length(bs, b) ==
    IF bs[b].name = <<>> THEN NoError
    ELSE IF Len(Strip(bs[b].name)) < 2 THEN ValidationError(MsgBookShort)
    ELSE NoError

\* the constraint methods of library.book whose fields are among `keys`, in
\* the order of their names
BookConstraints(bs, b, keys, now) ==
    FirstError(
        (IF "name" \in keys THEN <<book_check_name_length(bs, b)>> ELSE <<>>)
        \o
        (IF "published_date" \in keys
         THEN <<_check_published_date_not_future(bs, b, now)>> ELSE <<>>)
        \o
        (IF keys \cap {"name", "author_id"} # {}
         THEN <<_check_unique_name_author(bs, b)>> ELSE <<>>))

\* vals of library.book create(): name and author_id are required
BookCreateVals ==
    [name : Names, author_id : 1 .. MaxAuthors, published_date : DateInputs]

BookKeys(vals) ==
    { f \in BookFields :
        vals[f] # (IF f = "name" THEN AbsentName ELSE Absent) }

\* vals of library.book write()
BookWriteVals ==
    { v \in [name : Names \cup {AbsentName},
             author_id : (1 .. MaxAuthors) \cup {Absent},
             published_date : DateInputs \cup {Absent}] :
        /\ BookKeys(v) # {}
        /\ Cardinality(BookKeys(v)) <= MaxWriteKeys }

\* models.Model.create on library.book; is_available is computed over the
\* rent_ids of the new record
book_create(vals) ==
    /\ Len(books) < MaxBooks
    /\ vals.author_id \in DOMAIN authors
    /\ LET id == Len(books) + 1
           rec == [name |-> vals.name, author_id |-> vals.author_id,
                   published_date |-> vals.published_date,
                   is_available |-> _compute_is_available(rents, id)]
           ns == Append(books, rec)
           err == BookConstraints(ns, id, BookFields, today)
       IN IF err = NoError
          THEN /\ books' = ns
               /\ last' = Response("book_create", id, err, "untouched")
          ELSE /\ UNCHANGED books
               /\ last' = Response("book_create", 0, err, "untouched")
    /\ UNCHANGED <<authors, rents, rent_seq, today, bus>>

\* models.Model.write on one library.book record
book_write(b, vals) ==
    /\ b \in DOMAIN books
    /\ vals.author_id \in DOMAIN authors \cup {Absent}
    /\ LET rec == [f \in DOMAIN books[b] |->
                      IF f \in BookKeys(vals) THEN vals[f] ELSE books[b][f]]
           ns == [books EXCEPT ![b] = rec]
           err == BookConstraints(ns, b, BookKeys(vals), today)
       IN /\ books' = IF err = NoError THEN ns ELSE books
          /\ last' = Response("book_write", b, err, "untouched")
    /\ UNCHANGED <<authors, rents, rent_seq, today, bus>>

----------------------------------------------------------------------------
(* Author registry, filled from empty *)

InitAuthor ==
    /\ authors = <<>>
    /\ books = <<>>
    /\ rents = <<>>
    /\ rent_seq = 0
    /\ today = 0
    /\ last = Response("none", 0, NoError, "untouched")
    /\ bus = <<>>

NextAuthor == \E name \in AuthorNames : author_create(name)

SpecAuthor == InitAuthor /\ [][NextAuthor]_vars

\* names equal after trimming and lowercasing
SameNormalized(n, m) == Lower(Strip(n)) = Lower(Strip(m))

\* C9: after any sequence of author creations, in any order, no two stored
\* authors have names equal after trimming and lowercasing (the later insert
\* of such a pair fails).
C9_NoTwoAuthorsSameNormalizedName ==
    \A a1, a2 \in DOMAIN authors :
        a1 # a2 => ~SameNormalized(authors[a1].name, authors[a2].name)

----------------------------------------------------------------------------
(* Book catalog of a registry of two authors, filled from empty *)

InitBook ==
    /\ authors = <<[name |-> <<"a", "b">>], [name |-> <<"c", "d">>]>>
    /\ books = <<>>
    /\ rents = <<>>
    /\ rent_seq = 0
    /\ today = 0
    /\ last = Response("none", 0, NoError, "untouched")
    /\ bus = <<>>

NextBook ==
    \/ \E vals \in BookCreateVals : book_create(vals)
    \/ \E b \in 1 .. MaxBooks : \E vals \in BookWriteVals : book_write(b, vals)

SpecBook == InitBook /\ [][NextBook]_vars

\* C10: after any sequence of book creations and updates, no two stored books
\* have the same author and titles equal after trimming and ignoring case
\* (the later create or update producing such a pair fails).
C10_NoTwoBooksSameTitleAndAuthor ==
    \A b1, b2 \in DOMAIN books :
        b1 # b2 =>
            ~( /\ books[b1].author_id = books[b2].author_id
               /\ SameNormalized(books[b1].name, books[b2].name) )

\* the record create() stores for vals, as the new last row of the table
NewBook(vals) ==
    Append(books, [name |-> vals.name, author_id |-> vals.author_id,
                   published_date |-> vals.published_date,
                   is_available |-> TRUE])

C12_AuthorNameLengthRejected ==
    [][last'.op = "author_create" =>
        \A name \in AuthorNames :
          ( /\ author_create(name)
            /\ \/ Len(Strip(name)) < 2
               \/ Len(Strip(name)) > AuthorNameSize )
          => /\ last'.exc = "ValidationError"
             /\ authors' = authors]_vars

\* C17: with a clock that never goes back, action_return_book on an open
\* entry raises nothing (neither date check nor the one-open-rent check rejects
\* it) and closes the entry with today's date, so every open entry can be closed.
C17_ReturnOfOpenEntrySucceeds ==
    [][last'.op = "return" =>
        \A r \in 1 .. MaxRents :
          ( /\ action_return_book(r)
            /\ rents[r].return_date = NoDate )
          => /\ last'.exc = "none"
             /\ rents'[r].return_date = today]_vars

\* the second entry of a book was returned on a day after it was rented
C17_Witness ==
    /\ last.op = "return" /\ last.exc = "none" /\ last.id = 2
    /\ DOMAIN rents = {1, 2}
    /\ rents[1].book_id = rents[2].book_id
    /\ rents[2].rent_date < rents[2].return_date
    /\ rents[2].return_date = today

\* C18: a create() or action_return_book of a rental entry of book X leaves
\* is_available and current_renter_id of every other book, and every field of
\* every other rental entry, as they were.
C18_OtherBooksAndEntriesUntouched ==
    [][last'.op \in {"create", "return"} =>
        /\ \A o \in DOMAIN rents : o # last'.id => /\ o \in DOMAIN rents'
                                                  /\ rents'[o] = rents[o]
        /\ \A y \in DOMAIN books :
             (last'.id # 0 => y # rents'[last'.id].book_id) =>
                /\ books'[y].is_available = books[y].is_available
                /\ _compute_current_renter(rents', y, today')
                       = _compute_current_renter(rents, y, today)]_vars

\* an entry of one book was created while the other book is out on rent
C18_Witness ==
    /\ last.op = "create" /\ last.exc = "none" /\ last.id = 2
    /\ DOMAIN rents = {1, 2}
    /\ rents[1].book_id # rents[2].book_id
    /\ rents[1].return_date = NoDate
    /\ ~books[rents[1].book_id].is_available

----------------------------------------------------------------------------
(* library.rent.wizard: the "Rent Book" popup *)

MsgWizardContext == "This wizard can only be opened from a book form."
MsgBookNotFound == "Book not found."
MsgWizardRented == "The book is already rented to another user."

\* res.partner ids of the users who can press the button (env.user.partner_id):
\* one who is also an eligible borrower and one who is not
Users == {1, 3}
\* context["active_id"]: 0 for a missing or falsy value, else a record id,
\* the last one an id no book has
ActiveIds == 0 .. (MaxBooks + 1)
\* context["active_model"]
ActiveModels == {"library.book", "library.author"}

\* the checks of the wizard that read a missing record's is_available (False)
\* without asking whether it exists
wizard_validate_NoExistsCheck(bs, book_id, active_model) ==
    IF book_id = 0 \/ active_model # "library.book"
    THEN ValidationError(MsgWizardContext)
    ELSE IF book_id \notin DOMAIN bs \/ ~bs[book_id].is_available
    THEN ValidationError(MsgWizardRented)
    ELSE NoError

\* the checks of action_rent_book before the rental entry is created
wizard_validate(bs, book_id, active_model) ==
    IF book_id = 0 \/ active_model # "library.book"
    THEN ValidationError(MsgWizardContext)
    ELSE IF book_id \notin DOMAIN bs
    THEN ValidationError(MsgBookNotFound)
    ELSE IF ~bs[book_id].is_available
    THEN ValidationError(MsgWizardRented)
    ELSE NoError

\* the "simple_notification" sent to `target` about book and borrower
Notification(target, book, partner) ==
    [target |-> target, type |-> "simple_notification",
     book |-> book, partner |-> partner]

\* the button sending its notification to the borrower
action_rent_book_NotifiesBorrower(user, partner, book_id, active_model) ==
    LET pre == wizard_validate(books, book_id, active_model)
    IN
    /\ IF pre # NoError
       THEN /\ UNCHANGED <<rents, rent_seq, books, bus>>
            /\ last' = Response("rent_book", 0, pre, "untouched")
       ELSE /\ rent_seq < MaxRents
            /\ LET id == rent_seq + 1
                   rec == [partner_id |-> partner, book_id |-> book_id,
                           rent_date |-> today, return_date |-> NoDate]
                   ns == (id :> rec) @@ rents
                   err == RentConstraints(ns, id, RentFields, today)
               IN IF err = NoError
                  THEN /\ rents' = ns
                       /\ rent_seq' = id
                       /\ books' = Recompute(books, ns,
                                       Triggered(rents, ns, id, RentFields))
                       /\ bus' = Append(bus,
                                     Notification(partner, book_id, partner))
                       /\ last' = Response("rent_book", id, err,
                                           DatesClass(rec, RentFields, today))
                  ELSE /\ UNCHANGED <<rents, rent_seq, books, bus>>
                       /\ last' = Response("rent_book", 0, err,
                                           DatesClass(rec, RentFields, today))
    /\ UNCHANGED <<authors, today>>

\* LibraryRentWizard.action_rent_book, pressed by `user` on a wizard whose
\* partner_id is `partner`, with the given context
action_rent_book(user, partner, book_id, active_model) ==
    LET pre == wizard_validate(books, book_id, active_model)
    IN
    /\ IF pre # NoError
       THEN /\ UNCHANGED <<rents, rent_seq, books, bus>>
            /\ last' = Response("rent_book", 0, pre, "untouched")
       ELSE /\ rent_seq < MaxRents
            /\ LET id == rent_seq + 1
                   rec == [partner_id |-> partner, book_id |-> book_id,
                           rent_date |-> today, return_date |-> NoDate]
                   ns == (id :> rec) @@ rents
                   err == RentConstraints(ns, id, RentFields, today)
               IN IF err = NoError
                  THEN /\ rents' = ns
                       /\ rent_seq' = id
                       /\ books' = Recompute(books, ns,
                                       Triggered(rents, ns, id, RentFields))
                       /\ bus' = Append(bus,
                                     Notification(user, book_id, partner))
                       /\ last' = Response("rent_book", id, err,
                                           DatesClass(rec, RentFields, today))
                  ELSE /\ UNCHANGED <<rents, rent_seq, books, bus>>
                       /\ last' = Response("rent_book", 0, err,
                                           DatesClass(rec, RentFields, today))
    /\ UNCHANGED <<authors, today>>

----------------------------------------------------------------------------
(* GET /library/books *)

\* position of a character in the sort order of Char values
CharRank(c) ==
    CASE c = " " -> 0
      [] c = "%" -> 1
      [] c = "A" -> 2
      [] c = "B" -> 3
      [] c = "C" -> 4
      [] c = "D" -> 5
      [] c = "_" -> 6
      [] c = "a" -> 7
      [] c = "b" -> 8
      [] c = "c" -> 9
      [] OTHER -> 10

\* s sorts before t
RECURSIVE NameLess(_, _)
NameLess(s, t) ==
    IF t = <<>> THEN FALSE
    ELSE IF s = <<>> THEN TRUE
    ELSE IF CharRank(Head(s)) # CharRank(Head(t))
         THEN CharRank(Head(s)) < CharRank(Head(t))
    ELSE NameLess(Tail(s), Tail(t))

\* record x comes before record y under the order; "name" is the _order of
\* library.book, with the id to break ties
Before(bs, order, x, y) ==
    IF order = "id asc" THEN x < y
    ELSE \/ NameLess(bs[x].name, bs[y].name)
         \/ ~NameLess(bs[y].name, bs[x].name) /\ x < y

\* search([], order=order) among the records ids of the book table bs: the
\* ids as a sequence in that order
RECURSIVE Search(_, _, _)
Search(bs, ids, order) ==
    IF ids = {} THEN <<>>
    ELSE LET first == CHOOSE x \in ids :
                          \A y \in ids \ {x} : Before(bs, order, x, y)
         IN <<first>> \o Search(bs, ids \ {first}, order)

\* who sends the request: auth="public" lets anyone in
Callers == {"public", "user"}

\* one item of the response
BookItem(b) ==
    [id |-> b,
     name |-> books[b].name,
     author_id |-> IF books[b].author_id \in DOMAIN authors
                   THEN authors[books[b].author_id].name
                   ELSE <<>>,
     available |-> books[b].is_available]

\* the controller searching without order="id asc", in the model's _order
get_books_DefaultOrder(caller) ==
    LET found == Search(books, DOMAIN books, "name")
    IN [i \in 1 .. Len(found) |-> BookItem(found[i])]

\* LibraryController.get_books: the data of the response to `caller`;
\* sudo() makes the search independent of the caller's access rights
get_books(caller) ==
    LET found == Search(books, DOMAIN books, "id asc")
    IN [i \in 1 .. Len(found) |-> BookItem(found[i])]

----------------------------------------------------------------------------
(* The whole library: registry, catalog, ledger and wizard, from one author *)
(* and no book                                                             *)

\* names passed by the callers of the library
LibNames == { <<"a", "b">>, <<" ", "a", "b">>, <<"a">> }

LibAuthorNames == { <<"a", "b">>, <<"a">> }

LibBookCreateVals ==
    [name : LibNames, author_id : {1}, published_date : {NoDate, MaxDay + 1}]

\* write() of one field of a book
LibBookWriteVals ==
    { v \in BookWriteVals :
        /\ Cardinality(BookKeys(v)) = 1
        /\ v.name \in LibNames \cup {AbsentName}
        /\ v.author_id = Absent
        /\ v.published_date \in {Absent, MaxDay + 1} }

LibCreateVals ==
    [partner_id : Partners, book_id : LedgerBooks,
     rent_date : {Absent, MaxDay + 1}, return_date : {NoDate}]

\* write() of the book or of the return date of a rental entry
LibWriteVals ==
    { v \in WriteVals :
        /\ Cardinality(Keys(v)) = 1
        /\ v.partner_id = Absent
        /\ v.rent_date = Absent
        /\ v.return_date \in {Absent, NoDate} }

InitLibrary ==
    /\ authors = <<[name |-> <<"c", "d">>]>>
    /\ books = <<>>
    /\ rents = <<>>
    /\ rent_seq = 0
    /\ today = 0
    /\ last = Response("none", 0, NoError, "untouched")
    /\ bus = <<>>

NextLibrary ==
    \/ \E name \in LibAuthorNames : author_create(name)
    \/ \E vals \in LibBookCreateVals : book_create(vals)
    \/ \E b \in 1 .. MaxBooks : \E vals \in LibBookWriteVals : book_write(b, vals)
    \/ \E vals \in LibCreateVals : rent_create(vals)
    \/ \E r \in 1 .. MaxRents : \E vals \in LibWriteVals : rent_write(r, vals)
    \/ \E r \in 1 .. MaxRents : action_return_book(r)
    \/ \E user \in Users : \E partner \in Partners :
         \E book_id \in ActiveIds : \E active_model \in ActiveModels :
           action_rent_book(user, partner, book_id, active_model)

SpecLibrary == InitLibrary /\ [][NextLibrary]_vars

\* C13: action_rent_book checks in a fixed order: the wrong-context error
\* when the context names no library.book record; otherwise "Book not found."
\* when the book does not exist; otherwise the already-rented error when the
\* book is not available. So a missing book is never reported as already rented
\* and a wrong context never as a missing book.
C13_WizardChecksInOrder ==
    [][last'.op = "rent_book" =>
        \A user \in Users : \A partner \in Partners :
          \A book_id \in ActiveIds : \A active_model \in ActiveModels :
            action_rent_book(user, partner, book_id, active_model) =>
              IF book_id = 0 \/ active_model # "library.book"
              THEN last'.exc = "ValidationError" /\ last'.msg = MsgWizardContext
              ELSE IF book_id \notin DOMAIN books
              THEN last'.exc = "ValidationError" /\ last'.msg = MsgBookNotFound
              ELSE IF ~books[book_id].is_available
              THEN last'.exc = "ValidationError" /\ last'.msg = MsgWizardRented
              ELSE last'.msg \notin {MsgWizardContext, MsgBookNotFound,
                                     MsgWizardRented}]_vars

\* the wizard reported a missing book while a stored book was out on rent
C13_Witness ==
    /\ last.op = "rent_book" /\ last.msg = MsgBookNotFound
    /\ \E b \in DOMAIN books : ~books[b].is_available

\* C14: an action_rent_book that passes its checks inserts exactly one rental
\* entry (the wizard's partner, the context's book, rent_date today, no
\* return_date) and then sends exactly one notification, to the acting user;
\* one that fails a check inserts no entry and sends no notification.
C14_WizardOneEntryOneNotification ==
    [][last'.op = "rent_book" =>
        \A user \in Users : \A partner \in Partners :
          \A book_id \in ActiveIds : \A active_model \in ActiveModels :
            action_rent_book(user, partner, book_id, active_model) =>
              IF /\ book_id # 0 /\ active_model = "library.book"
                 /\ book_id \in DOMAIN books
                 /\ books[book_id].is_available
              THEN /\ last'.exc = "none"
                   /\ \E id \in DOMAIN rents' \ DOMAIN rents :
                        /\ DOMAIN rents' = DOMAIN rents \cup {id}
                        /\ rents'[id] = [partner_id |-> partner,
                                         book_id |-> book_id,
                                         rent_date |-> today,
                                         return_date |-> NoDate]
                   /\ \A o \in DOMAIN rents : rents'[o] = rents[o]
                   /\ Len(bus') = Len(bus) + 1
                   /\ SubSeq(bus', 1, Len(bus)) = bus
                   /\ bus'[Len(bus')].target = user
              ELSE /\ rents' = rents
                   /\ bus' = bus]_vars

\* the wizard rented a book out to a borrower other than the acting user, as
\* the second entry of the ledger
C14_Witness ==
    /\ last.op = "rent_book" /\ last.exc = "none" /\ last.id = 2
    /\ rents[2].return_date = NoDate /\ rents[2].rent_date = today
    /\ bus # <<>>
    /\ bus[Len(bus)].target # rents[2].partner_id
    /\ bus[Len(bus)].book = rents[2].book_id

\* C15: when a create, a write, a return or the wizard raises
\* ValidationError, the author, book and rental tables, is_available and
\* current_renter_id included, are as before the operation.
C15_ValidationErrorLeavesTablesUnchanged ==
    [][(last'.exc = "ValidationError" /\ last' # last) =>
        /\ authors' = authors
        /\ books' = books
        /\ rents' = rents
        /\ \A b \in DOMAIN books :
             _compute_current_renter(rents', b, today')
                 = _compute_current_renter(rents, b, today)]_vars

\* a create() of a rental entry was rejected with a book out on rent
C15_Witness ==
    /\ last.op = "create" /\ last.exc = "ValidationError"
    /\ rents # <<>>
    /\ \E b \in DOMAIN books : ~books[b].is_available

\* C16: GET /library/books returns one item per stored book, every book and
\* no other, by ascending id; an item's available is the book's is_available
\* and its author the name of the book's author; with no book the list is
\* empty; the list is the same for every caller.
C16_BookListMirrorsCatalog ==
    \A caller \in Callers :
      LET res == get_books(caller)
      IN /\ Len(res) = Cardinality(DOMAIN books)
         /\ { res[i].id : i \in 1 .. Len(res) } = DOMAIN books
         /\ \A i, j \in 1 .. Len(res) : i < j => res[i].id < res[j].id
         /\ \A i \in 1 .. Len(res) :
              /\ res[i].available = books[res[i].id].is_available
              /\ res[i].author_id = authors[books[res[i].id].author_id].name
         /\ (books = <<>> => res = <<>>)
         /\ \A other \in Callers : get_books(other) = res

\* two books whose names sort against their ids, the first one out on rent
C16_Witness ==
    /\ Len(books) = 2
    /\ NameLess(books[2].name, books[1].name)
    /\ ~books[1].is_available /\ books[2].is_available
    /\ Len(get_books("public")) = 2

====
